---- MODULE Spec2Model ----
(***************************************************************************)
(* A model of snek (src/src/main.rs): the Snek model, the Direction enum,  *)
(* rand_point, and Game::main_loop as a state machine whose steps are the  *)
(* statements of the loop body.                                            *)
(*                                                                         *)
(* A Point is a pair <<x, y>> of integers.  The body is a sequence of      *)
(* points, tail first, head last, as in the Vec<Point> of the source.      *)
(***************************************************************************)
EXTENDS Integers, Sequences, FiniteSets, TLC

VARIABLES
    body,       \* Snek.body
    start_len,  \* Snek.start_len
    direction,  \* Snek.direction
    eating,     \* Snek.eating
    alive,      \* Snek.alive
    food,       \* Game.food
    paused,     \* Game.paused
    width,      \* Game.width
    height,     \* Game.height
    keys,       \* the keys pressed in the last wait_frame that the program has
                \* yet to ask the engine about
    frame,      \* the last frame handed to the terminal (score, prompt, eye)
    entry,      \* body and food as they were passed to the running slither
    printed,    \* the scores main has printed after main_loop returned
    pc          \* the statement the program is at

vars == <<body, start_len, direction, eating, alive, food, paused, width,
          height, keys, frame, entry, printed, pc>>

(***************************************************************************)
(* Bounds of the model.  The program runs Game::new(WIDTH, HEIGHT, ..)     *)
(* on a 17 x 15 grid; the model runs the same constructor on a small grid: *)
(* as wide as STARTING_BODY is long (the narrowest grid that holds it) and *)
(* HEIGHT high.                                                            *)
(***************************************************************************)
HEIGHT == 2
\* at most this many keys are reported pressed in the same frame
MaxKeys == 2
\* SpecDead: the longest body handed to dead, and the largest grid side
MaxDeadLen == 3
MaxDeadDim == 1
\* SpecRand: the longest exclude list handed to rand_point, and the largest
\* grid side
MaxRandLen == 3
MaxRandDim == 2

\* ------------------------------------------------------------- constants

STARTING_BODY == << <<0, 0>>, <<1, 0>>, <<2, 0>>, <<3, 0>> >>
WIDTH == Len(STARTING_BODY)

QUIT_KEY == "q"
PAUSE_KEY == "Esc"
UP_KEY == "Up"
DOWN_KEY == "Down"
LEFT_KEY == "Left"
RIGHT_KEY == "Right"
Keys == {QUIT_KEY, PAUSE_KEY, UP_KEY, DOWN_KEY, LEFT_KEY, RIGHT_KEY}
KeySets == {ks \in SUBSET Keys : Cardinality(ks) <= MaxKeys}

EYE_CHAR == "^"
DEAD_EYE_CHAR == "x"
GAME_PROMPT == "SNEK"
PAUSE_PROMPT == "PAUSED"

Direction == {"Up", "Down", "Left", "Right"}

\* values of variables that hold nothing yet
NoPoint == <<>>
NoFrame == [score |-> -1, prompt |-> "", eye |-> ""]
NoEntry == [body |-> <<>>, food |-> NoPoint]

\* ------------------------------------------------------- pure functions

\* opposite as a quarter turn
opposite_rotated(d) ==
    CASE d = "Up" -> "Left"
      [] d = "Left" -> "Down"
      [] d = "Down" -> "Right"
      [] d = "Right" -> "Up"

\* Direction::opposite
opposite(d) ==
    CASE d = "Up" -> "Down"
      [] d = "Down" -> "Up"
      [] d = "Left" -> "Right"
      [] d = "Right" -> "Left"

\* Direction::to_vector
to_vector(d) ==
    CASE d = "Up" -> <<0, -1>>
      [] d = "Down" -> <<0, 1>>
      [] d = "Left" -> <<-1, 0>>
      [] d = "Right" -> <<1, 0>>

\* Point + Vector (euclid)
Add(p, v) == <<p[1] + v[1], p[2] + v[2]>>

\* slice::contains
contains(s, p) == \E i \in 1..Len(s) : s[i] = p

\* Vec::last().unwrap()
last(b) == b[Len(b)]

\* the draws of the inclusive ranges 0..=w, 0..=h
RandDrawsInclusive(w, h) == (0..w) \X (0..h)

\* the values fastrand::i32(0..w), fastrand::i32(0..h) can give
RandDraws(w, h) == (0..(w - 1)) \X (0..(h - 1))

\* dead with the right and bottom walls one cell too far (the - 1 forgotten)
dead_wall_off_by_one(b, w, h) ==
    LET l == last(b)
    IN  \/ contains(SubSeq(b, 1, Len(b) - 1), l)
        \/ l[1] < 0
        \/ l[2] < 0
        \/ l[1] > w
        \/ l[2] > h

\* dead without the tests of the walls
dead_self_only(b, w, h) ==
    LET l == last(b)
    IN  contains(SubSeq(b, 1, Len(b) - 1), l)

\* Snek::dead
dead(b, w, h) ==
    LET l == last(b)
    IN  \/ contains(SubSeq(b, 1, Len(b) - 1), l)
        \/ l[1] < 0
        \/ l[2] < 0
        \/ l[1] > w - 1
        \/ l[2] > h - 1

\* change_direction without the reversal check
change_direction_unguarded(cur, d) == d

\* Snek::change_direction: the direction after the call
change_direction(cur, d) == IF cur # opposite(d) THEN d ELSE cur

\* score with the subtraction turned around
score_reversed(b, sl) == sl - Len(b)

\* Snek::score
score(b, sl) == Len(b) - sl

\* Game::quit
quit(ks) == QUIT_KEY \in ks

\* ------------------------------------------------------------ the game

\* main: Game::new(WIDTH, HEIGHT, FPS, &STARTING_BODY), at the call of
\* rand_point that chooses the food
Init ==
    /\ body = STARTING_BODY
    /\ start_len = Len(STARTING_BODY)
    /\ direction = "Right"
    /\ eating = FALSE
    /\ alive = TRUE
    /\ food = NoPoint
    /\ paused = FALSE
    /\ width = WIDTH
    /\ height = HEIGHT
    /\ keys = {}
    /\ frame = NoFrame
    /\ entry = NoEntry
    /\ printed = <<>>
    /\ pc = "new"

\* rand_point: a draw (the first, or one in the loop) that is in exclude is
\* thrown away and the loop goes on: nothing of the game changes
RandPointRedraw ==
    /\ pc \in {"new", "rand_point"}
    /\ \E p \in RandDraws(width, height) : contains(body, p)
    /\ UNCHANGED vars

\* rand_point returning its draw without looking at exclude
RandPointReturnUnchecked ==
    /\ pc \in {"new", "rand_point"}
    /\ \E p \in RandDraws(width, height) : food' = p
    /\ pc' = "while"
    /\ UNCHANGED <<body, start_len, direction, eating, alive, paused, width,
                   height, keys, frame, entry, printed>>

\* rand_point: a draw that is not in exclude is returned; the caller (Game::new
\* or slither) stores it as the food
RandPointReturn ==
    /\ pc \in {"new", "rand_point"}
    /\ \E p \in RandDraws(width, height) :
          /\ ~contains(body, p)
          /\ food' = p
    /\ pc' = "while"
    /\ UNCHANGED <<body, start_len, direction, eating, alive, paused, width,
                   height, keys, frame, entry, printed>>

\* the loop body entered without the test of alive
LoopEnterUntested ==
    /\ pc = "while"
    /\ pc' = "alive"
    /\ entry' = NoEntry
    /\ UNCHANGED <<body, start_len, direction, eating, alive, food, paused,
                   width, height, keys, frame, printed>>

\* while self.snek.alive: the loop body is entered
LoopEnter ==
    /\ pc = "while"
    /\ alive
    /\ pc' = "alive"
    /\ entry' = NoEntry
    /\ UNCHANGED <<body, start_len, direction, eating, alive, food, paused,
                   width, height, keys, frame, printed>>

\* while self.snek.alive: main_loop returns
LoopExit ==
    /\ pc = "while"
    /\ ~alive
    /\ pc' = "done"
    /\ entry' = NoEntry
    /\ UNCHANGED <<body, start_len, direction, eating, alive, food, paused,
                   width, height, keys, frame, printed>>

\* alive computed from dead alone, the quit key not asked about
ComputeAliveNoQuit ==
    /\ pc = "alive"
    /\ alive' = ~dead(body, width, height)
    /\ pc' = "draw"
    /\ UNCHANGED <<body, start_len, direction, eating, food, paused, width,
                   height, keys, frame, entry, printed>>

\* self.snek.alive = !(self.quit() || self.snek.dead(..))
ComputeAlive ==
    /\ pc = "alive"
    /\ alive' = ~(quit(keys) \/ dead(body, width, height))
    /\ pc' = "draw"
    /\ UNCHANGED <<body, start_len, direction, eating, food, paused, width,
                   height, keys, frame, entry, printed>>

\* draw_snek drawing the head with the live eye whatever alive is
DrawLiveEye ==
    /\ pc = "draw"
    /\ frame' = [score |-> score(body, start_len),
                 prompt |-> IF paused THEN PAUSE_PROMPT ELSE GAME_PROMPT,
                 eye |-> EYE_CHAR]
    /\ pc' = "wait"
    /\ UNCHANGED <<body, start_len, direction, eating, alive, food, paused,
                   width, height, keys, entry, printed>>

\* self.draw(); self.engine.draw(); self.engine.clear_screen(): a frame is
\* on the terminal
Draw ==
    /\ pc = "draw"
    /\ frame' = [score |-> score(body, start_len),
                 prompt |-> IF paused THEN PAUSE_PROMPT ELSE GAME_PROMPT,
                 eye |-> IF alive THEN EYE_CHAR ELSE DEAD_EYE_CHAR]
    /\ pc' = "wait"
    /\ UNCHANGED <<body, start_len, direction, eating, alive, food, paused,
                   width, height, keys, entry, printed>>

\* input asking about the direction keys before the pause key
InputKeysDirectionFirst(ks) ==
    /\ IF UP_KEY \in ks
         THEN direction' = change_direction(direction, "Up")
              /\ paused' = paused
       ELSE IF DOWN_KEY \in ks
         THEN direction' = change_direction(direction, "Down")
              /\ paused' = paused
       ELSE IF LEFT_KEY \in ks
         THEN direction' = change_direction(direction, "Left")
              /\ paused' = paused
       ELSE IF RIGHT_KEY \in ks
         THEN direction' = change_direction(direction, "Right")
              /\ paused' = paused
       ELSE IF PAUSE_KEY \in ks
         THEN paused' = ~paused /\ direction' = direction
       ELSE UNCHANGED <<direction, paused>>
    /\ keys' = ks \cap {QUIT_KEY}
    /\ pc' = "move"
    /\ UNCHANGED <<body, start_len, eating, alive, food, width, height, frame,
                   entry, printed>>

\* Game::input when the engine reports the keys ks as pressed.  Until the next
\* wait_frame the program asks the engine about QUIT_KEY alone (Game::quit),
\* which is what is kept of ks.
InputKeys(ks) ==
    /\ IF PAUSE_KEY \in ks
         THEN paused' = ~paused /\ direction' = direction
       ELSE IF UP_KEY \in ks
         THEN direction' = change_direction(direction, "Up")
              /\ paused' = paused
       ELSE IF DOWN_KEY \in ks
         THEN direction' = change_direction(direction, "Down")
              /\ paused' = paused
       ELSE IF LEFT_KEY \in ks
         THEN direction' = change_direction(direction, "Left")
              /\ paused' = paused
       ELSE IF RIGHT_KEY \in ks
         THEN direction' = change_direction(direction, "Right")
              /\ paused' = paused
       ELSE UNCHANGED <<direction, paused>>
    /\ keys' = ks \cap {QUIT_KEY}
    /\ pc' = "move"
    /\ UNCHANGED <<body, start_len, eating, alive, food, width, height, frame,
                   entry, printed>>

\* self.engine.wait_frame(); self.input(): the engine collects the keys
\* pressed during the frame, any of KeySets, and input asks about them
WaitFrameInput ==
    /\ pc = "wait"
    /\ \E ks \in KeySets : InputKeys(ks)

\* self.input() alone, on the keys the engine holds
Input ==
    /\ pc = "input"
    /\ InputKeys(keys)

\* slither called without the test of paused
MoveUnguarded ==
    /\ pc = "move"
    /\ entry' = [body |-> body, food |-> food]
    /\ pc' = "slither"
    /\ UNCHANGED <<body, start_len, direction, eating, alive, food, paused,
                   width, height, keys, frame, printed>>

\* if !self.paused { self.snek.slither(..) }: slither is called
Move ==
    /\ pc = "move"
    /\ ~paused
    /\ entry' = [body |-> body, food |-> food]
    /\ pc' = "slither"
    /\ UNCHANGED <<body, start_len, direction, eating, alive, food, paused,
                   width, height, keys, frame, printed>>

\* if !self.paused { .. }: paused, the iteration ends without a move
MoveSkip ==
    /\ pc = "move"
    /\ paused
    /\ pc' = "while"
    /\ UNCHANGED <<body, start_len, direction, eating, alive, food, paused,
                   width, height, keys, frame, entry, printed>>

\* slither moving the head in place instead of pushing a new one
SlitherPushInPlace ==
    /\ pc = "slither"
    /\ body' = [body EXCEPT ![Len(body)] = Add(last(body), to_vector(direction))]
    /\ pc' = "eat"
    /\ UNCHANGED <<start_len, direction, eating, alive, food, paused, width,
                   height, keys, frame, entry, printed>>

\* slither: self.body.push(last + direction.to_vector())
SlitherPush ==
    /\ pc = "slither"
    /\ body' = Append(body, Add(last(body), to_vector(direction)))
    /\ pc' = "eat"
    /\ UNCHANGED <<start_len, direction, eating, alive, food, paused, width,
                   height, keys, frame, entry, printed>>

\* Snek::eat
Eat ==
    /\ pc = "eat"
    /\ eating' = IF last(body) = food THEN TRUE ELSE eating
    /\ pc' = "slither_if"
    /\ UNCHANGED <<body, start_len, direction, alive, food, paused, width,
                   height, keys, frame, entry, printed>>

\* slither dropping the newest segment instead of the oldest (pop for remove(0))
SlitherRemoveNewest ==
    /\ pc = "slither_if"
    /\ ~eating
    /\ body' = SubSeq(body, 1, Len(body) - 1)
    /\ pc' = "while"
    /\ UNCHANGED <<start_len, direction, eating, alive, food, paused, width,
                   height, keys, frame, entry, printed>>

\* slither: if !self.eating { self.body.remove(0); }
SlitherRemove ==
    /\ pc = "slither_if"
    /\ ~eating
    /\ body' = Tail(body)
    /\ pc' = "while"
    /\ UNCHANGED <<start_len, direction, eating, alive, food, paused, width,
                   height, keys, frame, entry, printed>>

\* slither growing without choosing a new food
SlitherGrowSameFood ==
    /\ pc = "slither_if"
    /\ eating
    /\ eating' = FALSE
    /\ pc' = "while"
    /\ UNCHANGED <<body, start_len, direction, alive, food, paused, width,
                   height, keys, frame, entry, printed>>

\* slither growing without resetting eating
SlitherGrowKeepEating ==
    /\ pc = "slither_if"
    /\ eating
    /\ pc' = "rand_point"
    /\ UNCHANGED <<body, start_len, direction, eating, alive, food, paused,
                   width, height, keys, frame, entry, printed>>

\* slither: else { self.eating = false; *food = rand_point(..) }, up to the
\* call of rand_point
SlitherGrow ==
    /\ pc = "slither_if"
    /\ eating
    /\ eating' = FALSE
    /\ pc' = "rand_point"
    /\ UNCHANGED <<body, start_len, direction, alive, food, paused, width,
                   height, keys, frame, entry, printed>>

\* main: let score = game.score(); println!(END_MESSAGE + score)
PrintScore ==
    /\ pc = "done"
    /\ printed' = <<score(body, start_len)>>
    /\ pc' = "exit"
    /\ UNCHANGED <<body, start_len, direction, eating, alive, food, paused,
                   width, height, keys, frame, entry>>

Next ==
    \/ RandPointRedraw
    \/ RandPointReturn
    \/ LoopEnter
    \/ LoopExit
    \/ ComputeAlive
    \/ Draw
    \/ WaitFrameInput
    \/ Move
    \/ MoveSkip
    \/ SlitherPush
    \/ Eat
    \/ SlitherRemove
    \/ SlitherGrow
    \/ PrintScore

Spec == Init /\ [][Next]_vars

\* --------------------------------------- Snek::dead on arbitrary bodies

\* the points and bodies handed to dead: every body of up to MaxDeadLen
\* points with coordinates from one cell outside the largest grid
DeadPoints == ((-1)..MaxDeadDim) \X ((-1)..MaxDeadDim)
DeadBodies == UNION {[1..n -> DeadPoints] : n \in 1..MaxDeadLen}

\* a game about to compute alive, with any body on any grid
InitDead ==
    /\ body \in DeadBodies
    /\ start_len = Len(body)
    /\ direction = "Right"
    /\ eating = FALSE
    /\ alive = TRUE
    /\ food = NoPoint
    /\ paused = FALSE
    /\ width \in 0..MaxDeadDim
    /\ height \in 0..MaxDeadDim
    /\ keys = {}
    /\ frame = NoFrame
    /\ entry = NoEntry
    /\ printed = <<>>
    /\ pc = "alive"

NextDead == ComputeAlive

SpecDead == InitDead /\ [][NextDead]_vars

\* ------------------------------ Game::input on arbitrary keys and state

\* a game about to run input, with any direction, pause state and set of
\* pressed keys, in a live or in the last iteration
InitInput ==
    /\ body = STARTING_BODY
    /\ start_len = Len(STARTING_BODY)
    /\ direction \in Direction
    /\ eating = FALSE
    /\ alive \in BOOLEAN
    /\ food = <<WIDTH - 1, HEIGHT - 1>>
    /\ paused \in BOOLEAN
    /\ width = WIDTH
    /\ height = HEIGHT
    /\ keys \in SUBSET Keys
    /\ frame = [score |-> 0,
                prompt |-> IF paused THEN PAUSE_PROMPT ELSE GAME_PROMPT,
                eye |-> IF alive THEN EYE_CHAR ELSE DEAD_EYE_CHAR]
    /\ entry = NoEntry
    /\ printed = <<>>
    /\ pc = "input"

NextInput == Input

SpecInput == InitInput /\ [][NextInput]_vars

\* ------------------------------- rand_point on arbitrary exclude lists

\* the points and lists handed to rand_point as exclude: every list of up to
\* MaxRandLen points of the largest grid and of the row and column beyond it
RandPoints == (0..MaxRandDim) \X (0..MaxRandDim)
RandExcludes == UNION {[1..n -> RandPoints] : n \in 0..MaxRandLen}

\* a call of rand_point(width, height, exclude) with any exclude list on any
\* grid of at least one cell; the list is held in body, as in the two calls
\* the program makes
InitRand ==
    /\ body \in RandExcludes
    /\ start_len = Len(body)
    /\ direction = "Right"
    /\ eating = FALSE
    /\ alive = TRUE
    /\ food = NoPoint
    /\ paused = FALSE
    /\ width \in 1..MaxRandDim
    /\ height \in 1..MaxRandDim
    /\ keys = {}
    /\ frame = NoFrame
    /\ entry = NoEntry
    /\ printed = <<>>
    /\ pc = "rand_point"

NextRand ==
    \/ RandPointRedraw
    \/ RandPointReturn

SpecRand == InitRand /\ [][NextRand]_vars

\* ------------------------------------------------------------ properties

\* the statements of a running slither (and of the rand_point it calls)
SlitherPcs == {"slither", "eat", "slither_if", "rand_point"}

\* the head a slither call entered with body and food e pushes
NewHead(e) == Add(last(e.body), to_vector(direction))

\* a slither call has just returned (entry holds what it was called with)
Slithered == pc = "while" /\ entry # NoEntry

\* the direction a direction key asks for (Game::input)
KeyDirection(k) ==
    CASE k = UP_KEY -> "Up"
      [] k = DOWN_KEY -> "Down"
      [] k = LEFT_KEY -> "Left"
      [] k = RIGHT_KEY -> "Right"

DirKeys == {UP_KEY, DOWN_KEY, LEFT_KEY, RIGHT_KEY}

\* C1: after Game::new and at every statement of main_loop outside a running
\* slither, the food is not on any cell of the snake body.
FoodNotOnSnek ==
    pc \notin {"new", "eat", "slither_if", "rand_point"} => ~contains(body, food)

\* C1 witness: the snake has eaten, a new food has been placed, the loop goes on
FoodReplaced ==
    /\ Slithered
    /\ NewHead(entry) = entry.food
    /\ food \in RandDraws(width, height)
    /\ ~contains(body, food)

\* the head of b is outside [0,w) x [0,h)
HeadOutside(b, w, h) ==
    ~(last(b)[1] \in 0..(w - 1) /\ last(b)[2] \in 0..(h - 1))

\* the head of b is on another segment of b
HeadOnSegment(b) == \E i \in 1..(Len(b) - 1) : b[i] = last(b)

\* the head of b is one step Right of a segment in the rightmost column
RightOfLastColumn(b, w) ==
    /\ Len(b) >= 2
    /\ b[Len(b) - 1][1] = w - 1
    /\ last(b) = Add(b[Len(b) - 1], to_vector("Right"))

\* C2: dead is true exactly when the head is outside the grid or on another
\* segment, alive is computed from it, and a head pushed Right from the
\* rightmost column is dead.
DeadIff ==
    /\ dead(body, width, height)
         <=> (HeadOutside(body, width, height) \/ HeadOnSegment(body))
    /\ (pc = "draw" /\ ~quit(keys))
         => (alive <=> ~(HeadOutside(body, width, height) \/ HeadOnSegment(body)))
    /\ RightOfLastColumn(body, width) => dead(body, width, height)

\* C2 witness: alive was computed false for a head pushed Right from the
\* rightmost column onto no other segment
DeadRightOfGrid ==
    /\ pc = "draw"
    /\ ~alive
    /\ width >= 1
    /\ RightOfLastColumn(body, width)
    /\ last(body)[2] \in 0..(height - 1)
    /\ ~HeadOnSegment(body)

\* C3: a slither call whose new head is not on the food leaves the length
\* and the food as they were, puts old head + direction vector last, and
\* drops the first segment, the others keeping their order.
SlitherMoves ==
    (Slithered /\ NewHead(entry) # entry.food) =>
        /\ Len(body) = Len(entry.body)
        /\ last(body) = NewHead(entry)
        /\ SubSeq(body, 1, Len(body) - 1) = Tail(entry.body)
        /\ food = entry.food

\* C3 witness: a live snake has moved without eating
MovedWithoutEating ==
    /\ Slithered
    /\ alive
    /\ NewHead(entry) # entry.food
    /\ body # entry.body

\* C4: a slither call whose new head is on the food makes the body one
\* longer, keeps the old tail (and every old segment), and returns with the
\* food on no cell of the grown body.
SlitherGrows ==
    (Slithered /\ NewHead(entry) = entry.food) =>
        /\ Len(body) = Len(entry.body) + 1
        /\ body[1] = entry.body[1]
        /\ SubSeq(body, 1, Len(entry.body)) = entry.body
        /\ last(body) = entry.food
        /\ ~contains(body, food)

\* C4 witness: a live snake has eaten and grown
MovedEating ==
    /\ Slithered
    /\ alive
    /\ NewHead(entry) = entry.food
    /\ Len(body) = Len(entry.body) + 1

\* C5: change_direction(d), called by input for the one direction key
\* pressed, leaves direction as it is when d is its opposite and sets it to
\* d otherwise; body, eating, alive and start_len stay as they are.
ChangeDirectionGuard ==
    [][(pc = "input" /\ PAUSE_KEY \notin keys
          /\ Cardinality(keys \cap DirKeys) = 1) =>
        LET d == KeyDirection(CHOOSE k \in keys \cap DirKeys : TRUE)
        IN  /\ direction' = IF d = opposite(direction) THEN direction ELSE d
            /\ UNCHANGED <<body, eating, alive, start_len>>]_vars

\* C5 witness: Left is asked for while moving Right; input is about to leave
\* direction Right
ReversalIgnored ==
    /\ pc = "input"
    /\ direction = "Right"
    /\ keys = {LEFT_KEY}
    /\ ENABLED (Input /\ direction' = "Right")

\* C6 (as claimed): no slither call puts the new head on the segment right
\* behind the previous head.  Stated for the calls made while alive is true,
\* which are among those the claim speaks of.
NoReversal ==
    (pc = "eat" /\ alive /\ Len(body) >= 3)
        => last(body) # body[Len(body) - 2]

\* C7 (as claimed): slither is called only in an iteration that computed alive
\* true and is not paused, and once alive is false body and food never change.
MovesOnlyAlive ==
    [][/\ pc' = "slither" => (alive /\ ~paused)
       /\ ~alive => UNCHANGED <<body, food>>]_vars

\* C8: once alive is false it stays false, the frame of that iteration is
\* rendered and no other, no later iteration starts, and the loop exits.
AliveTerminal ==
    [][/\ (alive /\ ~alive') => pc' = "draw"
       /\ ~alive =>
            /\ ~alive'
            /\ pc' \notin {"alive", "draw"}
            /\ pc = "draw" => (pc' = "wait" /\ frame'.eye = DEAD_EYE_CHAR)
            /\ pc # "draw" => frame' = frame
            /\ pc = "while" => pc' = "done"]_vars

\* C8 witness: the loop has exited after the one frame of the last iteration
LoopExited ==
    /\ pc = "done"
    /\ ~alive
    /\ frame.eye = DEAD_EYE_CHAR

\* the first pressed key in the order input asks about them, "none" if none
KeyOrder == <<PAUSE_KEY, UP_KEY, DOWN_KEY, LEFT_KEY, RIGHT_KEY>>
FirstPressed(ks) ==
    LET hit == {i \in 1..Len(KeyOrder) : KeyOrder[i] \in ks}
    IN  IF hit = {} THEN "none"
        ELSE KeyOrder[CHOOSE i \in hit : \A j \in hit : i <= j]

\* C9: input applies the action of the first pressed key in the order pause,
\* Up, Down, Left, Right and nothing else: pause toggles paused alone, a
\* direction key is passed to change_direction alone, no key changes nothing.
InputPriority ==
    [][pc = "input" =>
        LET k == FirstPressed(keys)
        IN  IF k = "none" THEN UNCHANGED <<paused, direction>>
            ELSE IF k = PAUSE_KEY
              THEN paused' = ~paused /\ direction' = direction
            ELSE /\ paused' = paused
                 /\ direction' = change_direction(direction, KeyDirection(k))]_vars

\* C9 witness: pause and two direction keys are pressed together; input is
\* about to toggle paused and leave the direction
PauseWins ==
    /\ pc = "input"
    /\ direction = "Right"
    /\ ~paused
    /\ keys = {PAUSE_KEY, UP_KEY, DOWN_KEY}
    /\ ENABLED (Input /\ paused' /\ direction' = "Right")

\* C10: score() is the body length minus the length of the starting body, it
\* is never negative, it is 0 after construction, and no step outside slither
\* and no whole slither call makes it smaller.
ScoreIsGrowth ==
    /\ [](/\ score(body, start_len) = Len(body) - Len(STARTING_BODY)
          /\ score(body, start_len) >= 0
          /\ (pc = "while" /\ frame = NoFrame) => score(body, start_len) = 0
          /\ Slithered => score(body, start_len) >= score(entry.body, start_len))
    /\ [][pc \notin {"slither", "slither_if"}
            => score(body', start_len') = score(body, start_len)]_vars

\* C10 witness: the snake has eaten twice
ScoredTwice ==
    /\ pc = "while"
    /\ score(body, start_len) = 2

\* C11: in every state, the intermediate ones of slither included, the body
\* is not empty and at least start_len long: last().unwrap(), remove(0), the
\* slice body[0..len-1] and the unsigned subtraction of score never fail.
BodyNeverShort ==
    /\ Len(body) >= 1
    /\ Len(body) >= start_len
    /\ Len(body) - 1 >= 0
    /\ pc = "slither_if" => Len(body) >= start_len + 1

\* C11 witness: inside slither of a snake of the starting length, between the
\* push and remove(0)
BetweenPushAndRemove ==
    /\ pc = "slither_if"
    /\ ~eating
    /\ Len(entry.body) = start_len
    /\ Len(body) = start_len + 1

\* the cells of the w x h grid that are in no position of the list s
FreeCells(s, w, h) ==
    {p \in (0..(w - 1)) \X (0..(h - 1)) : \A i \in 1..Len(s) : s[i] # p}

\* C12: whatever the grid and the exclude list, a point rand_point returns is
\* in [0,width) x [0,height) and is no member of exclude (and it returns only
\* when exclude leaves a cell of the grid free).
RandPointSound ==
    pc = "while" =>
        /\ food[1] >= 0 /\ food[1] < width
        /\ food[2] >= 0 /\ food[2] < height
        /\ \A i \in 1..Len(body) : body[i] # food
        /\ FreeCells(body, width, height) # {}

\* C12 witness: rand_point has returned the one cell of a 2 x 2 grid that a
\* list of three points, all of them on the grid, left free
RandPointLastCell ==
    /\ pc = "while"
    /\ width = 2 /\ height = 2
    /\ Len(body) = 3
    /\ FreeCells(body, width, height) = {food}

\* C13 (as claimed): the body never covers the whole grid, so every call of
\* rand_point that slither makes has a free cell to return.  Stated for the
\* calls made while alive is true.
GridNeverFull ==
    (pc = "rand_point" /\ alive) => FreeCells(body, width, height) # {}

\* C14: in an iteration whose alive computation finds the quit key pressed,
\* alive becomes false, dead or not, paused or not; without the quit key it
\* becomes false exactly when dead is true; and no iteration starts with
\* alive false: the loop exits at the end of that iteration.
QuitIsDeath ==
    /\ (pc = "draw" /\ QUIT_KEY \in keys) => ~alive
    /\ (pc = "draw" /\ QUIT_KEY \notin keys)
         => (~alive <=> dead(body, width, height))
    /\ pc = "alive" => alive
    /\ pc \in {"done", "exit"} => ~alive

\* C14 witness: alive was computed false for the quit key alone, the snake
\* not dead and the game paused
QuitWhilePaused ==
    /\ pc = "draw"
    /\ ~alive
    /\ QUIT_KEY \in keys
    /\ paused
    /\ ~dead(body, width, height)

\* v is one step along one axis
UnitVector(v) == v[1] * v[1] + v[2] * v[2] = 1

\* opposite pairs Up with Down and Left with Right, both ways, and to_vector
\* gives four distinct steps of one cell
OppositePairs ==
    /\ \A d \in Direction :
          /\ opposite(d) \in Direction
          /\ opposite(opposite(d)) = d
          /\ opposite(d) # d
          /\ UnitVector(to_vector(d))
    /\ opposite("Up") = "Down"
    /\ opposite("Left") = "Right"
    /\ \A d, e \in Direction : d # e => to_vector(d) # to_vector(e)
    /\ Cardinality({to_vector(d) : d \in Direction}) = 4

\* C15: opposite is an involution without fixed point that pairs Up with
\* Down and Left with Right, and to_vector gives four distinct unit vectors;
\* so for the direction the snake has, whichever it is.
DirectionAlgebra ==
    /\ OppositePairs
    /\ direction \in Direction
    /\ opposite(opposite(direction)) = direction
    /\ opposite(direction) # direction
    /\ UnitVector(to_vector(direction))

\* C15 witness: after a turn Down and a turn Left (each let through by the
\* comparison with opposite) slither has pushed the head one cell to the left
TurnedLeft ==
    /\ pc = "eat"
    /\ direction = "Left"
    /\ opposite(direction) = "Right"
    /\ last(body) = Add(body[Len(body) - 1], <<-1, 0>>)
    /\ body[Len(body) - 1] = Add(body[Len(body) - 2], <<0, 1>>)

\* the statements of an iteration of main_loop outside slither
LoopPcs == {"while", "alive", "draw", "wait", "move"}

EatingTransient ==
    /\ eating =>
          /\ pc = "slither_if"
          /\ last(body) = food
          /\ NewHead(entry) = entry.food
    /\ pc = "slither_if" => (eating <=> last(body) = food)
    /\ pc \in {"while", "alive", "done"} => ~eating

\* C17 witness: inside slither, the new head on the food and eating true
\* (the continuation is C4's)
JustAte ==
    /\ pc = "slither_if"
    /\ eating
    /\ last(body) = food
    /\ Len(body) = Len(entry.body) + 1

\* the eye draw_snek draws for a value of alive
Eye(a) == IF a THEN EYE_CHAR ELSE DEAD_EYE_CHAR

\* C18: every iteration renders one frame, after alive is computed and
\* before input and the move; the frame shows the dead eye exactly when it is
\* the last one (alive was computed false), the live eye before.
FramePerIteration ==
    /\ [](/\ (pc \notin {"new", "alive", "draw"} /\ frame # NoFrame)
                => frame.eye = Eye(alive)
          /\ (frame.eye = DEAD_EYE_CHAR) => (pc \notin {"alive", "draw"})
          /\ (pc \in {"done", "exit"}) => (frame.eye = DEAD_EYE_CHAR))
    /\ [][/\ (pc = "alive") => (pc' = "draw")
          /\ (pc' = "draw") => (pc = "alive")
          /\ (pc = "draw") => (pc' = "wait" /\ frame'.eye = Eye(alive))
          /\ (pc # "draw") => (frame' = frame)
          /\ (pc = "wait") => (pc' = "move")
          /\ (pc' = "move") => (pc = "wait")
          /\ (pc' = "slither") => (pc = "move")
          /\ (pc' = "alive") => (pc = "while")]_vars

\* C18 witness: the dead eye is on the terminal, after frames with the live
\* eye in which the snake moved and ate
DeadFrameShown ==
    /\ pc = "wait"
    /\ ~alive
    /\ frame.eye = DEAD_EYE_CHAR
    /\ frame.score >= 1

\* C19 (as claimed): the score main prints is the score of the last frame.
PrintedIsShown ==
    pc = "exit" => printed = <<frame.score>>

\* p is a cell of the w x h grid
InGrid(p, w, h) == p[1] \in 0..(w - 1) /\ p[2] \in 0..(h - 1)

\* C20: when an iteration starts, the segments other than the head are
\* pairwise distinct cells of the grid, consecutive segments are
\* orthogonally adjacent, and the head is at most one cell outside the grid.
BodyWellFormed ==
    pc = "alive" =>
        /\ \A i, j \in 1..(Len(body) - 1) : i # j => body[i] # body[j]
        /\ \A i \in 1..(Len(body) - 1) : InGrid(body[i], width, height)
        /\ \A i \in 1..(Len(body) - 1) :
              UnitVector(<<body[i + 1][1] - body[i][1],
                           body[i + 1][2] - body[i][2]>>)
        /\ last(body)[1] \in (-1)..width
        /\ last(body)[2] \in (-1)..height

\* C20 witness: an iteration starts with the head of a grown snake one cell
\* outside the grid
HeadJustOutside ==
    /\ pc = "alive"
    /\ Len(body) > start_len
    /\ ~InGrid(last(body), width, height)

====
